---- MODULE Spec2Model ----
(***************************************************************************)
(* Model of the training-pipeline orchestrator of                          *)
(* deep-learning/graph-transformer/webhook_listener.py: the data_update    *)
(* trigger handler, the single-flight guard (training_lock and             *)
(* training_in_progress) and run_training_pipeline, one action per         *)
(* statement group of the worker thread.                                   *)
(***************************************************************************)
EXTENDS Integers, Sequences, FiniteSets, TLC

(* Number of data_update triggers (hence worker threads) in a behaviour. *)
MaxTriggers == 2

Workers == 1..MaxTriggers

(* Number of socketio.emit calls that may raise in a behaviour with emit faults. *)
MaxEmitFaults == 2

(* Inputs and outcomes of the external collaborators. *)
Payloads == {"p"}
ExitCodes == {0, 1}
StderrTexts == {"", "Traceback"}
HttpStatuses == {200, 201, 404}

VARIABLES
    training_in_progress,  \* the global flag
    training_lock,         \* 0 when free, else the worker holding it
    pc,                    \* position of each worker thread
    started,               \* number of threads handle_data_update has started
    acks,                  \* return values of handle_data_update, in call order
    emitted,               \* every event handed to socketio.emit, in emission order
    result,                \* local `result` of each worker (CompletedProcess)
    response,              \* local `response` of each worker (status code)
    exc,                   \* exception in flight in each worker ("" when none)
    model_file,            \* graph-transformer/best_model.pt: 0 absent, else the run that wrote it
    data_dir,              \* graph-transformer/data/clout/raw
    guard,                 \* history: what the guard decided for each worker
    calls,                 \* history: the external calls each worker made, with outcomes
    emitFaults,            \* environment: how many more socketio.emit calls can raise
    emitRaised             \* history: the positions at which each worker's emit raised

hookVars == <<training_in_progress, training_lock, pc, started, acks, emitted,
              result, response, exc, model_file, data_dir, guard, calls,
              emitFaults, emitRaised>>

(* State of websocket_server.TrainingDataStreamer and of its event loop. *)
VARIABLES
    clients,               \* self.clients: the registered websockets
    data_queue,            \* self.data_queue, oldest item first
    conn,                  \* per websocket: "new", "open", "closed", "gone", "keyerror"
    loop,                  \* position of broadcast_data
    gather_message,        \* the local message of broadcast_data
    pending,               \* the send coroutines of the gather not yet finished
    gatherExc,             \* a send of the current gather has raised
    received,              \* per websocket: the messages its peer has been sent
    enqueued,              \* history: how many items add_training_data has put
    joinEnq,               \* history: value of enqueued when the websocket registered
    joinDeq,               \* history: items already dequeued when it registered
    dispatched,            \* history: per dequeued item, the websockets it was sent to
    polled                 \* history: what the last Queue.get of the loop found

streamVars == <<clients, data_queue, conn, loop, gather_message, pending, gatherExc,
                received, enqueued, joinEnq, joinDeq, dispatched, polled>>

vars == <<hookVars, streamVars>>

NoResult == [returncode |-> -1, stderr |-> ""]

(* ---------------------------------------------------------------- events *)

Event(w, name, status, step, message, payload) ==
    [worker |-> w, event |-> name, status |-> status, step |-> step,
     message |-> message, payload |-> payload]

StatusEvent(w, status, step, message) ==
    Event(w, "training_status", status, step, message, 0)

Call(stage, out, code, content) ==
    [stage |-> stage, out |-> out, code |-> code, content |-> content]

EmitOutcomes == IF emitFaults > 0 THEN {TRUE, FALSE} ELSE {TRUE}

(* socketio.emit(ev) by worker w: on success the event is appended and the  *)
(* worker goes to okpc; when emit raises nothing is appended and control    *)
(* goes to failpc with the exception in flight.                             *)
Emit(w, ev, okpc, failpc) ==
    \E ok \in EmitOutcomes :
        IF ok
        THEN /\ emitted' = Append(emitted, ev)
             /\ pc' = [pc EXCEPT ![w] = okpc]
             /\ exc' = [exc EXCEPT ![w] = ""]
             /\ emitFaults' = emitFaults
             /\ emitRaised' = emitRaised
        ELSE /\ emitted' = emitted
             /\ pc' = [pc EXCEPT ![w] = failpc]
             /\ exc' = [exc EXCEPT ![w] = "EmitError"]
             /\ emitFaults' = emitFaults - 1
             /\ emitRaised' = [emitRaised EXCEPT ![w] = Append(@, pc[w])]

Raise(w, e, handler) ==
    /\ exc' = [exc EXCEPT ![w] = e]
    /\ pc' = [pc EXCEPT ![w] = handler]

Goto(w, label) == pc' = [pc EXCEPT ![w] = label]

(* A `return` inside the try block runs the finally clause. *)
ReturnFromTry_skips_finally == "returned"

ReturnFromTry == "finally_lock"

(* ------------------------------------------------------- trigger handler *)

TriggerReply_by_state ==
    IF training_in_progress
    THEN [status |-> "skipped", message |-> "Training already in progress"]
    ELSE [status |-> "accepted", message |-> "Training triggered"]

TriggerReply == [status |-> "accepted", message |-> "Training triggered"]

handle_data_update ==
    /\ started < MaxTriggers
    /\ \E data \in Payloads :
        /\ started' = started + 1
        /\ pc' = [pc EXCEPT ![started + 1] = "lock"]
        /\ acks' = Append(acks, [reply |-> TriggerReply,
                                 running |-> training_in_progress])
    /\ UNCHANGED <<training_in_progress, training_lock, emitted, result,
                   response, exc, model_file, data_dir, guard, calls,
                   emitFaults, emitRaised>>
    /\ UNCHANGED streamVars

(* ------------------------------------------------------------- the guard *)

LockFree_unlocked == TRUE

LockFree == training_lock = 0

AcquireGuardLock(w) ==
    /\ pc[w] = "lock"
    /\ LockFree
    /\ training_lock' = w
    /\ Goto(w, "check")
    /\ UNCHANGED <<training_in_progress, started, acks, emitted, result,
                   response, exc, model_file, data_dir, guard, calls,
                   emitFaults, emitRaised>>
    /\ UNCHANGED streamVars

(* a check that lets every trigger through *)
GuardCheck_ignores_flag(w) ==
    /\ pc[w] = "check"
    /\ Goto(w, "set")
    /\ guard' = [guard EXCEPT ![w] = "accepted"]
    /\ UNCHANGED <<training_in_progress, training_lock, started, acks,
                   emitted, result, response, exc, model_file, data_dir,
                   calls, emitFaults, emitRaised>>
    /\ UNCHANGED streamVars

GuardCheck(w) ==
    /\ pc[w] = "check"
    /\ IF training_in_progress
       THEN /\ Goto(w, "skip")
            /\ guard' = [guard EXCEPT ![w] = "skipped"]
       ELSE /\ Goto(w, "set")
            /\ guard' = [guard EXCEPT ![w] = "accepted"]
    /\ UNCHANGED <<training_in_progress, training_lock, started, acks,
                   emitted, result, response, exc, model_file, data_dir,
                   calls, emitFaults, emitRaised>>
    /\ UNCHANGED streamVars

EmitSkipped_falls_through(w) ==
    /\ pc[w] = "skip"
    /\ Emit(w, StatusEvent(w, "skipped", "", "Training already in progress"),
            "started", "crashed")
    /\ training_lock' = 0
    /\ UNCHANGED <<training_in_progress, started, acks, result, response,
                   model_file, data_dir, guard, calls>>
    /\ UNCHANGED streamVars

(* a skip path whose return sits inside the try: the finally clause runs *)
EmitSkipped_through_finally(w) ==
    /\ pc[w] = "skip"
    /\ Emit(w, StatusEvent(w, "skipped", "", "Training already in progress"),
            "finally_lock", "finally_lock")
    /\ training_lock' = 0
    /\ UNCHANGED <<training_in_progress, started, acks, result, response,
                   model_file, data_dir, guard, calls>>
    /\ UNCHANGED streamVars

EmitSkipped(w) ==
    /\ pc[w] = "skip"
    /\ Emit(w, StatusEvent(w, "skipped", "", "Training already in progress"),
            "returned", "crashed")
    /\ training_lock' = 0
    /\ UNCHANGED <<training_in_progress, started, acks, result, response,
                   model_file, data_dir, guard, calls>>
    /\ UNCHANGED streamVars

GuardSet(w) ==
    /\ pc[w] = "set"
    /\ training_in_progress' = TRUE
    /\ training_lock' = 0
    /\ Goto(w, "started")
    /\ UNCHANGED <<started, acks, emitted, result, response, exc, model_file,
                   data_dir, guard, calls, emitFaults, emitRaised>>
    /\ UNCHANGED streamVars

(* ------------------------------------------------- the try block: stages *)

EmitStarted(w) ==
    /\ pc[w] = "started"
    /\ Emit(w, StatusEvent(w, "started", "", "Training pipeline started"),
            "cleanup", "except")
    /\ UNCHANGED <<training_in_progress, training_lock, started, acks, result,
                   response, model_file, data_dir, guard, calls>>
    /\ UNCHANGED streamVars

(* Step 1: os.path.exists / shutil.rmtree / os.makedirs on the data directory. *)
Cleanup(w) ==
    /\ pc[w] = "cleanup"
    /\ \E out \in {"ok", "raise"} :
        /\ calls' = [calls EXCEPT ![w] = Append(@, Call("cleanup", out, 0, 0))]
        /\ IF out = "ok"
           THEN /\ data_dir' = "empty"
                /\ Goto(w, "cleanup_done")
                /\ exc' = exc
           ELSE /\ data_dir' = data_dir
                /\ Raise(w, "OSError", "except")
    /\ UNCHANGED <<training_in_progress, training_lock, started, acks, emitted,
                   result, response, model_file, guard, emitFaults, emitRaised>>
    /\ UNCHANGED streamVars

EmitCleanup(w) ==
    /\ pc[w] = "cleanup_done"
    /\ Emit(w, StatusEvent(w, "progress", "data_cleanup", "Old data deleted"),
            "convert_start", "except")
    /\ UNCHANGED <<training_in_progress, training_lock, started, acks, result,
                   response, model_file, data_dir, guard, calls>>
    /\ UNCHANGED streamVars

EmitConvertStart(w) ==
    /\ pc[w] = "convert_start"
    /\ Emit(w, StatusEvent(w, "progress", "data_conversion",
                           "Starting data conversion"),
            "convert", "except")
    /\ UNCHANGED <<training_in_progress, training_lock, started, acks, result,
                   response, model_file, data_dir, guard, calls>>
    /\ UNCHANGED streamVars

(* Step 2: subprocess.run(["python", "convert_data.py"]): the call raises   *)
(* (the executable cannot be launched) or returns a CompletedProcess.       *)
Convert(w) ==
    /\ pc[w] = "convert"
    /\ \E out \in {"exit", "raise"}, rc \in ExitCodes, err \in StderrTexts :
        IF out = "exit"
        THEN /\ (rc = 0 => err = "")
             /\ calls' = [calls EXCEPT ![w] = Append(@, Call("convert", out, rc, 0))]
             /\ result' = [result EXCEPT ![w] = [returncode |-> rc, stderr |-> err]]
             /\ Goto(w, "convert_check")
             /\ exc' = exc
        ELSE /\ rc = 0 /\ err = ""
             /\ calls' = [calls EXCEPT ![w] = Append(@, Call("convert", out, 0, 0))]
             /\ result' = result
             /\ Raise(w, "FileNotFoundError", "except")
    /\ UNCHANGED <<training_in_progress, training_lock, started, acks, emitted,
                   response, model_file, data_dir, guard, emitFaults, emitRaised>>
    /\ UNCHANGED streamVars

ConvertCheck_no_return(w) ==
    /\ pc[w] = "convert_check"
    /\ IF result[w].returncode # 0
       THEN Emit(w, StatusEvent(w, "error", "data_conversion",
                                "Data conversion failed"),
                 "train_start", "except")
       ELSE Emit(w, StatusEvent(w, "progress", "data_conversion",
                                "Data conversion completed"),
                 "train_start", "except")
    /\ UNCHANGED <<training_in_progress, training_lock, started, acks, result,
                   response, model_file, data_dir, guard, calls>>
    /\ UNCHANGED streamVars

ConvertCheck(w) ==
    /\ pc[w] = "convert_check"
    /\ IF result[w].returncode # 0
       THEN Emit(w, StatusEvent(w, "error", "data_conversion",
                                "Data conversion failed"),
                 ReturnFromTry, "except")
       ELSE Emit(w, StatusEvent(w, "progress", "data_conversion",
                                "Data conversion completed"),
                 "train_start", "except")
    /\ UNCHANGED <<training_in_progress, training_lock, started, acks, result,
                   response, model_file, data_dir, guard, calls>>
    /\ UNCHANGED streamVars

EmitTrainStart_silent(w) ==
    /\ pc[w] = "train_start"
    /\ Goto(w, "train")
    /\ UNCHANGED <<training_in_progress, training_lock, started, acks, emitted,
                   result, response, exc, model_file, data_dir, guard, calls,
                   emitFaults, emitRaised>>
    /\ UNCHANGED streamVars

EmitTrainStart(w) ==
    /\ pc[w] = "train_start"
    /\ Emit(w, StatusEvent(w, "progress", "training",
                           "Starting distributed training"),
            "train", "except")
    /\ UNCHANGED <<training_in_progress, training_lock, started, acks, result,
                   response, model_file, data_dir, guard, calls>>
    /\ UNCHANGED streamVars

(* Step 3: subprocess.run(train_command). The training process is a black   *)
(* box: whatever its exit status it may or may not have written             *)
(* best_model.pt.                                                           *)
Train(w) ==
    /\ pc[w] = "train"
    /\ \E out \in {"exit", "raise"}, rc \in ExitCodes, err \in StderrTexts,
          wrote \in BOOLEAN :
        IF out = "exit"
        THEN /\ (rc = 0 => err = "")
             /\ calls' = [calls EXCEPT ![w] = Append(@, Call("train", out, rc, 0))]
             /\ result' = [result EXCEPT ![w] = [returncode |-> rc, stderr |-> err]]
             /\ model_file' = IF wrote THEN w ELSE model_file
             /\ Goto(w, "train_check")
             /\ exc' = exc
        ELSE /\ rc = 0 /\ err = "" /\ ~wrote
             /\ calls' = [calls EXCEPT ![w] = Append(@, Call("train", out, 0, 0))]
             /\ result' = result
             /\ model_file' = model_file
             /\ Raise(w, "FileNotFoundError", "except")
    /\ UNCHANGED <<training_in_progress, training_lock, started, acks, emitted,
                   response, data_dir, guard, emitFaults, emitRaised>>
    /\ UNCHANGED streamVars

TrainCheck_no_return(w) ==
    /\ pc[w] = "train_check"
    /\ IF result[w].returncode # 0
       THEN Emit(w, StatusEvent(w, "error", "training", "Training failed"),
                 "verify", "except")
       ELSE Emit(w, StatusEvent(w, "progress", "training", "Training completed"),
                 "verify", "except")
    /\ UNCHANGED <<training_in_progress, training_lock, started, acks, result,
                   response, model_file, data_dir, guard, calls>>
    /\ UNCHANGED streamVars

TrainCheck(w) ==
    /\ pc[w] = "train_check"
    /\ IF result[w].returncode # 0
       THEN Emit(w, StatusEvent(w, "error", "training", "Training failed"),
                 ReturnFromTry, "except")
       ELSE Emit(w, StatusEvent(w, "progress", "training", "Training completed"),
                 "verify", "except")
    /\ UNCHANGED <<training_in_progress, training_lock, started, acks, result,
                   response, model_file, data_dir, guard, calls>>
    /\ UNCHANGED streamVars

(* Step 4: os.path.exists(model_path). *)
Verify_no_return(w) ==
    /\ pc[w] = "verify"
    /\ calls' = [calls EXCEPT ![w] =
                    Append(@, Call("verify", IF model_file = 0 THEN "missing"
                                             ELSE "present", 0, model_file))]
    /\ IF model_file = 0
       THEN Emit(w, StatusEvent(w, "error", "model_verification",
                                "Trained model not found"),
                 "upload_start", "except")
       ELSE /\ Goto(w, "upload_start")
            /\ UNCHANGED <<emitted, exc, emitFaults, emitRaised>>
    /\ UNCHANGED <<training_in_progress, training_lock, started, acks, result,
                   response, model_file, data_dir, guard>>
    /\ UNCHANGED streamVars

Verify(w) ==
    /\ pc[w] = "verify"
    /\ calls' = [calls EXCEPT ![w] =
                    Append(@, Call("verify", IF model_file = 0 THEN "missing"
                                             ELSE "present", 0, model_file))]
    /\ IF model_file = 0
       THEN Emit(w, StatusEvent(w, "error", "model_verification",
                                "Trained model not found"),
                 ReturnFromTry, "except")
       ELSE /\ Goto(w, "upload_start")
            /\ UNCHANGED <<emitted, exc, emitFaults, emitRaised>>
    /\ UNCHANGED <<training_in_progress, training_lock, started, acks, result,
                   response, model_file, data_dir, guard>>
    /\ UNCHANGED streamVars

(* Step 5: open(model_path) and requests.post(model_server_url, files).     *)
EmitUploadStart(w) ==
    /\ pc[w] = "upload_start"
    /\ Emit(w, StatusEvent(w, "progress", "model_upload",
                           "Uploading model to server"),
            "upload", "except")
    /\ UNCHANGED <<training_in_progress, training_lock, started, acks, result,
                   response, model_file, data_dir, guard, calls>>
    /\ UNCHANGED streamVars

(* The open or the POST raises (no try/except surrounds them, so the fault  *)
(* reaches the top-level handler), or the POST returns a response.          *)
Upload(w) ==
    /\ pc[w] = "upload"
    /\ \E out \in {"status", "open_raise", "post_raise"}, code \in HttpStatuses :
        IF out = "status"
        THEN /\ calls' = [calls EXCEPT ![w] =
                            Append(@, Call("upload", out, code, model_file))]
             /\ response' = [response EXCEPT ![w] = code]
             /\ Goto(w, "upload_check")
             /\ exc' = exc
        ELSE /\ code = 200
             /\ calls' = [calls EXCEPT ![w] =
                            Append(@, Call("upload", out, 0, model_file))]
             /\ response' = response
             /\ Raise(w, IF out = "open_raise" THEN "OSError"
                         ELSE "ConnectionError", "except")
    /\ UNCHANGED <<training_in_progress, training_lock, started, acks, emitted,
                   result, model_file, data_dir, guard, emitFaults, emitRaised>>
    /\ UNCHANGED streamVars

UploadCheck_error_returns(w) ==
    /\ pc[w] = "upload_check"
    /\ IF response[w] = 200
       THEN Emit(w, StatusEvent(w, "progress", "model_upload",
                                "Model successfully uploaded"),
                 "broadcast", "except")
       ELSE Emit(w, StatusEvent(w, "error", "model_upload",
                                "Failed to upload model: " \o ToString(response[w])),
                 ReturnFromTry, "except")
    /\ UNCHANGED <<training_in_progress, training_lock, started, acks, result,
                   response, model_file, data_dir, guard, calls>>
    /\ UNCHANGED streamVars

UploadCheck(w) ==
    /\ pc[w] = "upload_check"
    /\ IF response[w] = 200
       THEN Emit(w, StatusEvent(w, "progress", "model_upload",
                                "Model successfully uploaded"),
                 "broadcast", "except")
       ELSE Emit(w, StatusEvent(w, "error", "model_upload",
                                "Failed to upload model: " \o ToString(response[w])),
                 "broadcast", "except")
    /\ UNCHANGED <<training_in_progress, training_lock, started, acks, result,
                   response, model_file, data_dir, guard, calls>>
    /\ UNCHANGED streamVars

(* Step 6: the inner try: open, read, base64-encode, emit model_data. The   *)
(* payload stands for the encoded bytes of the file that was read.          *)
Broadcast(w) ==
    /\ pc[w] = "broadcast"
    /\ \E out \in {"ok", "raise"} :
        /\ calls' = [calls EXCEPT ![w] =
                        Append(@, Call("broadcast", out, 0, model_file))]
        /\ IF out = "ok"
           THEN Emit(w, Event(w, "model_data", "", "", "best_model.pt", model_file),
                     "completed", "broadcast_except")
           ELSE /\ Raise(w, "OSError", "broadcast_except")
                /\ UNCHANGED <<emitted, emitFaults, emitRaised>>
    /\ UNCHANGED <<training_in_progress, training_lock, started, acks, result,
                   response, model_file, data_dir, guard>>
    /\ UNCHANGED streamVars

(* except Exception as e (inner): report and fall through. *)
BroadcastExcept_reraises(w) ==
    /\ pc[w] = "broadcast_except"
    /\ \E ok \in EmitOutcomes :
        /\ emitted' = IF ok
                      THEN Append(emitted,
                                  StatusEvent(w, "error", "model_websocket_send",
                                      "Failed to send model to clients: " \o exc[w]))
                      ELSE emitted
        /\ emitFaults' = IF ok THEN emitFaults ELSE emitFaults - 1
        /\ emitRaised' = IF ok THEN emitRaised
                         ELSE [emitRaised EXCEPT ![w] = Append(@, pc[w])]
    /\ Goto(w, "except")
    /\ UNCHANGED <<training_in_progress, training_lock, started, acks, result,
                   response, exc, model_file, data_dir, guard, calls>>
    /\ UNCHANGED streamVars

BroadcastExcept(w) ==
    /\ pc[w] = "broadcast_except"
    /\ Emit(w, StatusEvent(w, "error", "model_websocket_send",
                           "Failed to send model to clients: " \o exc[w]),
            "completed", "except")
    /\ UNCHANGED <<training_in_progress, training_lock, started, acks, result,
                   response, model_file, data_dir, guard, calls>>
    /\ UNCHANGED streamVars

(* a run that ends without its 'completed' event *)
EmitCompleted_silent(w) ==
    /\ pc[w] = "completed"
    /\ Goto(w, "finally_lock")
    /\ UNCHANGED <<training_in_progress, training_lock, started, acks, emitted,
                   result, response, exc, model_file, data_dir, guard, calls,
                   emitFaults, emitRaised>>
    /\ UNCHANGED streamVars

EmitCompleted(w) ==
    /\ pc[w] = "completed"
    /\ Emit(w, StatusEvent(w, "completed", "",
                           "Training pipeline completed successfully"),
            "finally_lock", "except")
    /\ UNCHANGED <<training_in_progress, training_lock, started, acks, result,
                   response, model_file, data_dir, guard, calls>>
    /\ UNCHANGED streamVars

(* ------------------------------------------------- except / finally *)

(* except Exception as e (top level). If this emit raises too, the finally  *)
(* clause still runs and the exception then leaves the thread.              *)
Except_resumes(w) ==
    /\ pc[w] = "except"
    /\ Emit(w, StatusEvent(w, "error", "unknown", "Exception: " \o exc[w]),
            "completed", "finally_lock")
    /\ UNCHANGED <<training_in_progress, training_lock, started, acks, result,
                   response, model_file, data_dir, guard, calls>>
    /\ UNCHANGED streamVars

Except(w) ==
    /\ pc[w] = "except"
    /\ Emit(w, StatusEvent(w, "error", "unknown", "Exception: " \o exc[w]),
            "finally_lock", "finally_lock")
    /\ UNCHANGED <<training_in_progress, training_lock, started, acks, result,
                   response, model_file, data_dir, guard, calls>>
    /\ UNCHANGED streamVars

FinallyLock(w) ==
    /\ pc[w] = "finally_lock"
    /\ LockFree
    /\ training_lock' = w
    /\ Goto(w, "finally_reset")
    /\ UNCHANGED <<training_in_progress, started, acks, emitted, result,
                   response, exc, model_file, data_dir, guard, calls,
                   emitFaults, emitRaised>>
    /\ UNCHANGED streamVars

FinallyReset_keeps_flag(w) ==
    /\ pc[w] = "finally_reset"
    /\ training_in_progress' = training_in_progress
    /\ training_lock' = 0
    /\ Goto(w, IF exc[w] = "" THEN "returned" ELSE "crashed")
    /\ result' = [result EXCEPT ![w] = NoResult]
    /\ response' = [response EXCEPT ![w] = -1]
    /\ UNCHANGED <<started, acks, emitted, exc, model_file, data_dir, guard,
                   calls, emitFaults, emitRaised>>
    /\ UNCHANGED streamVars

FinallyReset(w) ==
    /\ pc[w] = "finally_reset"
    /\ training_in_progress' = FALSE
    /\ training_lock' = 0
    /\ Goto(w, IF exc[w] = "" THEN "returned" ELSE "crashed")
    /\ result' = [result EXCEPT ![w] = NoResult]
    /\ response' = [response EXCEPT ![w] = -1]
    /\ UNCHANGED <<started, acks, emitted, exc, model_file, data_dir, guard,
                   calls, emitFaults, emitRaised>>
    /\ UNCHANGED streamVars

(* ------------------------------------------------------- specification *)

run_training_pipeline(w) ==
    \/ AcquireGuardLock(w)
    \/ GuardCheck(w)
    \/ EmitSkipped(w)
    \/ GuardSet(w)
    \/ EmitStarted(w)
    \/ Cleanup(w)
    \/ EmitCleanup(w)
    \/ EmitConvertStart(w)
    \/ Convert(w)
    \/ ConvertCheck(w)
    \/ EmitTrainStart(w)
    \/ Train(w)
    \/ TrainCheck(w)
    \/ Verify(w)
    \/ EmitUploadStart(w)
    \/ Upload(w)
    \/ UploadCheck(w)
    \/ Broadcast(w)
    \/ BroadcastExcept(w)
    \/ EmitCompleted(w)
    \/ Except(w)
    \/ FinallyLock(w)
    \/ FinallyReset(w)

(***************************************************************************)
(* websocket_server.py: TrainingDataStreamer.  The event loop runs one     *)
(* coroutine at a time, so each action is the code between two awaits.     *)
(***************************************************************************)

(* Number of items add_training_data is called with in a behaviour. *)
MaxItems == 2

(* Number of websocket connections the server accepts in a behaviour. *)
MaxObservers == 2

(* The data handed to add_training_data, numbered in the order of the calls. *)
Items == 1..MaxItems

(* The websocket objects handed to register, one per accepted connection. *)
Observers == 1..MaxObservers

NoMessage == <<>>

(* json.dumps(data): the text sent on the wire, not the object itself *)
Dumps(data) == <<"json", data>>

(* Queue.get() on a queue.Queue: the oldest item leaves the queue *)
QueueGet_lifo(q) == [item |-> q[Len(q)], rest |-> SubSeq(q, 1, Len(q) - 1)]

QueueGet(q) == [item |-> Head(q), rest |-> Tail(q)]

(* self.data_queue.put(data); the caller is any thread *)
add_training_data ==
    /\ enqueued < MaxItems
    /\ enqueued' = enqueued + 1
    /\ data_queue' = Append(data_queue, enqueued + 1)
    /\ UNCHANGED <<clients, conn, loop, gather_message, pending, gatherExc, received,
                   joinEnq, joinDeq, dispatched, polled>>
    /\ UNCHANGED hookVars

(* a registration that also joins the gather in flight *)
register_joins_inflight(c) ==
    /\ loop # "dead"
    /\ conn[c] = "new"
    /\ clients' = clients \cup {c}
    /\ conn' = [conn EXCEPT ![c] = "open"]
    /\ joinEnq' = [joinEnq EXCEPT ![c] = enqueued]
    /\ joinDeq' = [joinDeq EXCEPT ![c] = enqueued - Len(data_queue)]
    /\ pending' = IF loop = "sending" THEN pending \cup {c} ELSE pending
    /\ UNCHANGED <<data_queue, loop, gather_message, gatherExc, received, enqueued,
                   dispatched, polled>>
    /\ UNCHANGED hookVars

(* register, up to its await: self.clients.add(websocket).  The server      *)
(* accepts connections only while start_server is inside its async with.    *)
register(c) ==
    /\ loop # "dead"
    /\ conn[c] = "new"
    /\ clients' = clients \cup {c}
    /\ conn' = [conn EXCEPT ![c] = "open"]
    /\ joinEnq' = [joinEnq EXCEPT ![c] = enqueued]
    /\ joinDeq' = [joinDeq EXCEPT ![c] = enqueued - Len(data_queue)]
    /\ UNCHANGED <<data_queue, loop, gather_message, pending, gatherExc, received,
                   enqueued, dispatched, polled>>
    /\ UNCHANGED hookVars

(* The peer or the network closes the connection: wait_closed() becomes     *)
(* ready, the handler has not run yet.                                      *)
connection_closed(c) ==
    /\ conn[c] = "open"
    /\ conn' = [conn EXCEPT ![c] = "closed"]
    /\ UNCHANGED <<clients, data_queue, loop, gather_message, pending, gatherExc,
                   received, enqueued, joinEnq, joinDeq, dispatched, polled>>
    /\ UNCHANGED hookVars

(* register resumes after wait_closed(): finally self.clients.remove(websocket); *)
(* set.remove raises KeyError when the member is not there                      *)
register_finally(c) ==
    /\ conn[c] = "closed"
    /\ clients' = clients \ {c}
    /\ conn' = [conn EXCEPT ![c] = IF c \in clients THEN "gone" ELSE "keyerror"]
    /\ UNCHANGED <<data_queue, loop, gather_message, pending, gatherExc, received,
                   enqueued, joinEnq, joinDeq, dispatched, polled>>
    /\ UNCHANGED hookVars

(* history record of one Queue.get of the loop: the item and self.clients   *)
(* at that moment                                                           *)
Dispatch(got) == [item |-> got.item, to |-> clients]

(* before the first get *)
NothingPolled == [open |-> {}, left |-> <<>>]

(* what that get found: the clients whose connection was open and the items *)
(* it left in the queue                                                     *)
Polled(got) ==
    [open |-> {c \in clients : conn[c] = "open"},
     left |-> got.rest]

(* a poll that puts the item back when nobody is connected *)
broadcast_data_poll_requeues ==
    /\ loop = "poll"
    /\ IF data_queue # <<>>
       THEN LET got == QueueGet(data_queue) IN
            /\ dispatched' = Append(dispatched, Dispatch(got))
            /\ polled' = Polled(got)
            /\ IF clients # {}
               THEN /\ data_queue' = got.rest
                    /\ gather_message' = Dumps(got.item)
                    /\ pending' = clients
                    /\ gatherExc' = FALSE
                    /\ loop' = "sending"
               ELSE /\ data_queue' = Append(got.rest, got.item)
                    /\ loop' = "sleep"
                    /\ UNCHANGED <<gather_message, pending, gatherExc>>
       ELSE /\ loop' = "sleep"
            /\ UNCHANGED <<data_queue, dispatched, polled, gather_message, pending, gatherExc>>
    /\ UNCHANGED <<clients, conn, received, enqueued, joinEnq, joinDeq>>
    /\ UNCHANGED hookVars

(* broadcast_data from the top of the while body to its next await: the     *)
(* gather over the clients of this moment, or the sleep.                    *)
broadcast_data_poll ==
    /\ loop = "poll"
    /\ IF data_queue # <<>>
       THEN LET got == QueueGet(data_queue) IN
            /\ data_queue' = got.rest
            /\ dispatched' = Append(dispatched, Dispatch(got))
            /\ polled' = Polled(got)
            /\ IF clients # {}
               THEN /\ gather_message' = Dumps(got.item)
                    /\ pending' = clients
                    /\ gatherExc' = FALSE
                    /\ loop' = "sending"
               ELSE /\ loop' = "sleep"
                    /\ UNCHANGED <<gather_message, pending, gatherExc>>
       ELSE /\ loop' = "sleep"
            /\ UNCHANGED <<data_queue, dispatched, polled, gather_message, pending, gatherExc>>
    /\ UNCHANGED <<clients, conn, received, enqueued, joinEnq, joinDeq>>
    /\ UNCHANGED hookVars

(* a send that drops a closed connection from the clients instead of raising *)
send_prunes_closed(c) ==
    /\ loop = "sending"
    /\ c \in pending
    /\ pending' = pending \ {c}
    /\ IF conn[c] = "open"
       THEN /\ received' = [received EXCEPT ![c] = Append(@, gather_message)]
            /\ clients' = clients
       ELSE /\ received' = received
            /\ clients' = clients \ {c}
    /\ UNCHANGED <<data_queue, conn, loop, gather_message, gatherExc, enqueued,
                   joinEnq, joinDeq, dispatched, polled>>
    /\ UNCHANGED hookVars

(* a send that swallows the failure of a closed connection *)
send_ignores_closed(c) ==
    /\ loop = "sending"
    /\ c \in pending
    /\ pending' = pending \ {c}
    /\ IF conn[c] = "open"
       THEN received' = [received EXCEPT ![c] = Append(@, gather_message)]
       ELSE received' = received
    /\ UNCHANGED <<clients, data_queue, conn, loop, gather_message, gatherExc, enqueued,
                   joinEnq, joinDeq, dispatched, polled>>
    /\ UNCHANGED hookVars

(* client.send(message), one coroutine of the gather: the message goes out  *)
(* on an open connection, ConnectionClosed is raised on any other.          *)
send(c) ==
    /\ loop = "sending"
    /\ c \in pending
    /\ pending' = pending \ {c}
    /\ IF conn[c] = "open"
       THEN /\ received' = [received EXCEPT ![c] = Append(@, gather_message)]
            /\ gatherExc' = gatherExc
       ELSE /\ received' = received
            /\ gatherExc' = TRUE
    /\ UNCHANGED <<clients, data_queue, conn, loop, gather_message, enqueued,
                   joinEnq, joinDeq, dispatched, polled>>
    /\ UNCHANGED hookVars

(* every send has returned: the gather returns, the loop goes to its sleep *)
gather_returns ==
    /\ loop = "sending"
    /\ pending = {}
    /\ ~gatherExc
    /\ loop' = "sleep"
    /\ UNCHANGED <<clients, data_queue, conn, gather_message, pending, gatherExc,
                   received, enqueued, joinEnq, joinDeq, dispatched, polled>>
    /\ UNCHANGED hookVars

(* gather without return_exceptions hands the first exception of a send to  *)
(* broadcast_data, which has no handler: the coroutine ends, start_server   *)
(* leaves its async with and run_until_complete raises in the thread.       *)
gather_raises ==
    /\ loop = "sending"
    /\ gatherExc
    /\ loop' = "dead"
    /\ pending' = {}
    /\ UNCHANGED <<clients, data_queue, conn, gather_message, gatherExc, received,
                   enqueued, joinEnq, joinDeq, dispatched, polled>>
    /\ UNCHANGED hookVars

(* asyncio.sleep(0.1) returns: back to the top of the while *)
sleep_returns ==
    /\ loop = "sleep"
    /\ loop' = "poll"
    /\ UNCHANGED <<clients, data_queue, conn, gather_message, pending, gatherExc,
                   received, enqueued, joinEnq, joinDeq, dispatched, polled>>
    /\ UNCHANGED hookVars

broadcast_data ==
    \/ broadcast_data_poll
    \/ gather_returns
    \/ gather_raises
    \/ sleep_returns

(* TrainingDataStreamer() followed by start(): nothing queued, nobody there *)
StreamInit ==
    /\ clients = {}
    /\ data_queue = <<>>
    /\ conn = [c \in Observers |-> "new"]
    /\ loop = "poll"
    /\ gather_message = NoMessage
    /\ pending = {}
    /\ gatherExc = FALSE
    /\ received = [c \in Observers |-> <<>>]
    /\ enqueued = 0
    /\ joinEnq = [c \in Observers |-> 0]
    /\ joinDeq = [c \in Observers |-> 0]
    /\ dispatched = <<>>
    /\ polled = NothingPolled

InitState ==
    /\ StreamInit
    /\ training_in_progress = FALSE
    /\ training_lock = 0
    /\ pc = [w \in Workers |-> "unborn"]
    /\ started = 0
    /\ acks = <<>>
    /\ emitted = <<>>
    /\ result = [w \in Workers |-> NoResult]
    /\ response = [w \in Workers |-> -1]
    /\ exc = [w \in Workers |-> ""]
    /\ model_file = 0
    /\ data_dir = "absent"
    /\ guard = [w \in Workers |-> "none"]
    /\ calls = [w \in Workers |-> <<>>]
    /\ emitRaised = [w \in Workers |-> <<>>]

(* socketio.emit is reliable *)
Init == InitState /\ emitFaults = 0

(* socketio.emit may raise at any call *)
InitEmitFaults == InitState /\ emitFaults = MaxEmitFaults

Next ==
    \/ handle_data_update
    \/ \E w \in Workers : run_training_pipeline(w)

Spec == Init /\ [][Next]_vars

SpecEmitFaults == InitEmitFaults /\ [][Next]_vars

(* Threads are scheduled fairly and every external call returns or raises. *)
FairSpec ==
    /\ Init
    /\ [][Next]_vars
    /\ \A w \in Workers : WF_vars(run_training_pipeline(w))

(* The streamer on its own: producers, connections and the event loop. *)
StreamNext ==
    \/ add_training_data
    \/ \E c \in Observers : register(c)
    \/ \E c \in Observers : connection_closed(c)
    \/ \E c \in Observers : register_finally(c)
    \/ \E c \in Observers : send(c)
    \/ broadcast_data

StreamSpec == Init /\ [][StreamNext]_vars

(* The event loop runs every coroutine that is ready and no send stalls;    *)
(* producers and peers are free to act or not.                              *)
StreamFairSpec ==
    /\ Init
    /\ [][StreamNext]_vars
    /\ WF_vars(broadcast_data)
    /\ \A c \in Observers : WF_vars(send(c))
    /\ \A c \in Observers : WF_vars(register_finally(c))

(* The observers whose sends always finish; the send to the remaining one   *)
(* may stay suspended for ever while its connection is open (a peer that    *)
(* stopped reading); on a closed connection it raises like any other.       *)
Responsive == 1..(MaxObservers - 1)

(* The event loop runs every ready coroutine, one observer may stall. *)
StreamStallSpec ==
    /\ Init
    /\ [][StreamNext]_vars
    /\ WF_vars(broadcast_data)
    /\ \A c \in Responsive : WF_vars(send(c))
    /\ \A c \in Observers \ Responsive : WF_vars(conn[c] # "open" /\ send(c))
    /\ \A c \in Observers : WF_vars(register_finally(c))

(* ------------------------------------------------------------ vocabulary *)

(* Positions between the guard's `training_in_progress = True` and the end  *)
(* of the finally clause.                                                   *)
RunPcs ==
    {"started", "cleanup", "cleanup_done", "convert_start", "convert",
     "convert_check", "train_start", "train", "train_check", "verify",
     "upload_start", "upload", "upload_check", "broadcast",
     "broadcast_except", "completed", "except", "finally_lock",
     "finally_reset"}

InRegion(w) == pc[w] \in RunPcs

Finished(w) == pc[w] \in {"returned", "crashed"}

EventsOf(w) == SelectSeq(emitted, LAMBDA e : e.worker = w)

ErrorsOf(w) == SelectSeq(EventsOf(w), LAMBDA e : e.status = "error")

Range(s) == {s[i] : i \in DOMAIN s}

Stages(w) == {c.stage : c \in Range(calls[w])}

Exited(w, stage, codes) ==
    \E c \in Range(calls[w]) : c.stage = stage /\ c.out = "exit" /\ c.code \in codes

NonZero == ExitCodes \ {0}

(* The guard is Idle as far as worker w is concerned: the flag is FALSE     *)
(* unless a later run of another worker has set it again.                   *)
IdleAfter(w) ==
    training_in_progress => \E v \in Workers \ {w} : InRegion(v)

(* ---------------------------------------------------------------- claims *)

(* C1: single-flight mutual exclusion. In every reachable state at most one *)
(* worker is past the guard, that is between setting training_in_progress   *)
(* to True and the end of the finally clause that resets it.                *)
C1_SingleFlight == Cardinality({w \in Workers : InRegion(w)}) <= 1

(* A worker is inside the Train stage while another has been rejected.      *)
C1_Witness ==
    \E w, v \in Workers :
        /\ pc[w] = "train"
        /\ guard[v] = "skipped"
        /\ training_in_progress

(* C2: guard release on every exit path. Whenever no worker is inside the   *)
(* try/finally region the flag is False; in particular it is False once an  *)
(* accepted run has terminated, whatever path it took.                      *)
C2_GuardReleased ==
    /\ (\A w \in Workers : ~InRegion(w)) => training_in_progress = FALSE
    /\ \A w \in Workers :
         (guard[w] = "accepted" /\ Finished(w)) => IdleAfter(w)

(* An accepted run ended through the top-level exception handler, another   *)
(* ended by an early return, and the flag is False.                         *)
C2_Witness ==
    \E w, v \in Workers :
        /\ guard[w] = "accepted" /\ Finished(w)
        /\ \E c \in Range(calls[w]) : c.out \in {"raise", "post_raise"}
        /\ guard[v] = "accepted" /\ Finished(v)
        /\ Exited(v, "convert", NonZero)
        /\ training_in_progress = FALSE

(* C3: no permanent lock-out. Under fair scheduling every run that is past  *)
(* the guard eventually has the flag back to False, and a worker whose      *)
(* guard check finds the flag False is accepted and starts its run.         *)
C3_NoLockOut ==
    /\ \A w \in Workers : InRegion(w) ~> (Finished(w) /\ IdleAfter(w))
    /\ \A w \in Workers :
         (pc[w] = "check" /\ ~training_in_progress) ~> (pc[w] = "started")

(* A second run has started after the first one terminated.                 *)
C3_Witness ==
    \E w, v \in Workers :
        /\ guard[w] = "accepted" /\ Finished(w)
        /\ guard[v] = "accepted" /\ pc[v] = "started"

(* C4: a worker whose guard check finds a run in progress emits exactly one *)
(* event, the training_status 'skipped' event, invokes no stage, and never  *)
(* becomes a run; no thread exists that a trigger did not start.            *)
C4_RejectedTrigger ==
    /\ started = Len(acks)
    /\ \A w \in Workers :
         /\ pc[w] = "skip" => \E v \in Workers \ {w} : InRegion(v)
         /\ guard[w] = "skipped" =>
              /\ pc[w] \in {"skip", "returned"}
              /\ calls[w] = <<>>
              /\ EventsOf(w) =
                   IF pc[w] = "returned"
                   THEN <<StatusEvent(w, "skipped", "",
                                      "Training already in progress")>>
                   ELSE <<>>

(* A rejected worker has returned and the run that was in progress has      *)
(* since finished; the rejected worker did not start afterwards.            *)
C4_Witness ==
    \E w, v \in Workers :
        /\ guard[w] = "skipped" /\ pc[w] = "returned"
        /\ guard[v] = "accepted" /\ Finished(v)
        /\ ~training_in_progress

(* C5: handle_data_update answers every trigger with status 'accepted',     *)
(* whether or not a run is in progress, as soon as the thread is started;   *)
(* a rejection shows only as a 'skipped' event of the worker.               *)
C5_AlwaysAccepted ==
    /\ Len(acks) = started
    /\ \A i \in DOMAIN acks : acks[i].reply.status = "accepted"
    /\ \A w \in Workers : pc[w] # "unborn" <=> w \in DOMAIN acks
    /\ \A w \in Workers :
         (guard[w] = "skipped" /\ pc[w] = "returned") =>
             /\ acks[w].reply.status = "accepted"
             /\ \E e \in Range(EventsOf(w)) : e.status = "skipped"

(* A trigger arrived while a run was in progress, was answered 'accepted',  *)
(* and its worker was then rejected by the guard; the run in progress has   *)
(* failed meanwhile.                                                        *)
C5_Witness ==
    \E w, v \in Workers :
        /\ w \in DOMAIN acks
        /\ acks[w].running
        /\ acks[w].reply.status = "accepted"
        /\ guard[w] = "skipped" /\ pc[w] = "returned"
        /\ Finished(v) /\ Len(ErrorsOf(v)) > 0

StepsAfterConvert == {"training", "model_verification", "model_upload",
                      "model_websocket_send"}

StepsAfterTrain == {"model_verification", "model_upload",
                    "model_websocket_send"}

(* No event of worker w reports one of `steps`, carries the model, or is    *)
(* the 'completed' event.                                                   *)
NoEventBeyond(w, steps) ==
    \A e \in Range(EventsOf(w)) :
        /\ e.step \notin steps
        /\ e.event # "model_data"
        /\ e.status # "completed"

(* C6: fatal external stages. After a non-zero Convert exit Train is never  *)
(* invoked and no Train/Verify/Upload/Broadcast or 'completed' event is     *)
(* emitted; after a non-zero Train exit Verify, Upload and Broadcast are    *)
(* not attempted and emit nothing. In both cases the run emits exactly one  *)
(* error event, naming the failed step.                                     *)
C6_FatalStages ==
    \A w \in Workers :
        /\ Exited(w, "convert", NonZero) =>
             /\ Stages(w) \cap {"train", "verify", "upload", "broadcast"} = {}
             /\ NoEventBeyond(w, StepsAfterConvert)
             /\ pc[w] # "convert_check" =>
                  ErrorsOf(w) = <<StatusEvent(w, "error", "data_conversion",
                                              "Data conversion failed")>>
        /\ Exited(w, "train", NonZero) =>
             /\ Stages(w) \cap {"verify", "upload", "broadcast"} = {}
             /\ NoEventBeyond(w, StepsAfterTrain)
             /\ pc[w] # "train_check" =>
                  ErrorsOf(w) = <<StatusEvent(w, "error", "training",
                                              "Training failed")>>

(* One run ended after a failed Convert and another after a failed Train.   *)
C6_Witness ==
    \E w, v \in Workers :
        /\ Finished(w) /\ Exited(w, "convert", NonZero)
        /\ Finished(v) /\ Exited(v, "train", NonZero)

(* C7: when Convert exits with status 1 in an accepted run, the events of   *)
(* the run are exactly: pipeline started (Cleanup:Started), data_cleanup    *)
(* progress (Cleanup:Completed), data_conversion progress (Convert:Started) *)
(* and data_conversion error (Convert:Error); the guard is Idle afterwards. *)
C7_ConvertExitOne ==
    \A w \in Workers :
        (Finished(w) /\ Exited(w, "convert", {1})) =>
            /\ EventsOf(w) =
                 << StatusEvent(w, "started", "", "Training pipeline started"),
                    StatusEvent(w, "progress", "data_cleanup", "Old data deleted"),
                    StatusEvent(w, "progress", "data_conversion",
                                "Starting data conversion"),
                    StatusEvent(w, "error", "data_conversion",
                                "Data conversion failed") >>
            /\ IdleAfter(w)
            /\ pc[w] = "returned"

(* A run whose Convert exited 1 has finished and nothing is running.        *)
C7_Witness ==
    \E w \in Workers :
        /\ Finished(w) /\ Exited(w, "convert", {1})
        /\ ~training_in_progress

VerifyMissing(w) ==
    \E c \in Range(calls[w]) : c.stage = "verify" /\ c.out = "missing"

(* C8: if Train exits zero but the artifact is absent, the run emits an     *)
(* error event for model_verification, performs no upload and no broadcast, *)
(* emits no 'completed' event and releases the guard.                       *)
C8_ArtifactMissing ==
    \A w \in Workers :
        VerifyMissing(w) =>
            /\ Exited(w, "train", {0})
            /\ ErrorsOf(w) = <<StatusEvent(w, "error", "model_verification",
                                           "Trained model not found")>>
            /\ Stages(w) \cap {"upload", "broadcast"} = {}
            /\ NoEventBeyond(w, {"model_upload", "model_websocket_send"})
            /\ pc[w] \in {"finally_lock", "finally_reset", "returned"}
            /\ Finished(w) => IdleAfter(w)

(* A run that found no artifact has finished and nothing is running.        *)
C8_Witness ==
    \E w \in Workers :
        /\ VerifyMissing(w) /\ pc[w] = "returned"
        /\ ~training_in_progress

UploadRefused(w) ==
    \E c \in Range(calls[w]) :
        c.stage = "upload" /\ c.out = "status" /\ c.code \notin 200..299

UploadRaised(w) ==
    \E c \in Range(calls[w]) :
        c.stage = "upload" /\ c.out \in {"open_raise", "post_raise"}

BroadcastRead(w) ==
    \E c \in Range(calls[w]) : c.stage = "broadcast" /\ c.out = "ok"

(* Position of the first event of worker w satisfying the test, 0 if none.  *)
FirstIndex(w, Test(_)) ==
    LET ev == EventsOf(w)
        hits == {i \in DOMAIN ev : Test(ev[i])}
    IN IF hits = {} THEN 0 ELSE CHOOSE i \in hits : \A j \in hits : i <= j

IsUploadError(e) == e.status = "error" /\ e.step = "model_upload"

IsModelData(e) == e.event = "model_data"

(* C9: a non-2xx upload response is not fatal. The run emits an error event *)
(* with step model_upload and then attempts Broadcast; when the artifact is *)
(* read and encoded, a model_data event follows in the same run.            *)
C9_UploadRefusedNonFatal ==
    \A w \in Workers :
        (UploadRefused(w) /\ pc[w] # "upload_check") =>
            /\ FirstIndex(w, IsUploadError) > 0
            /\ pc[w] = "broadcast" \/ "broadcast" \in Stages(w)
            /\ BroadcastRead(w) =>
                 FirstIndex(w, IsModelData) > FirstIndex(w, IsUploadError)

(* A run got 404 from the upload and still emitted the model.               *)
C9_Witness ==
    \E w \in Workers :
        /\ UploadRefused(w) /\ BroadcastRead(w) /\ Finished(w)
        /\ FirstIndex(w, IsModelData) > 0

(* C10: a transport fault of the upload (the POST raises, or the artifact   *)
(* cannot be opened) is not fatal: the run emits an error event and still   *)
(* attempts the Broadcast stage.                                            *)
C10_UploadRaiseNonFatal ==
    \A w \in Workers :
        (UploadRaised(w) /\ Finished(w)) =>
            /\ Len(ErrorsOf(w)) > 0
            /\ "broadcast" \in Stages(w)

(* ------------------------------------------------ faults inside a run *)

(* A call of a stage outside the inner try of Broadcast raised.             *)
StageRaised(w) ==
    \E c \in Range(calls[w]) :
        /\ c.stage # "broadcast"
        /\ c.out \in {"raise", "open_raise", "post_raise"}

(* Positions of the emits that the top-level try covers directly: all but   *)
(* the skip emit (before the try), the model_data emit (inner try) and the  *)
(* top-level handler's own emit.                                            *)
EmitRaisedAt(w, sites) == Range(emitRaised[w]) \cap sites # {}

TopLevelSites == RunPcs \ {"broadcast", "except"}

UnknownErrors(w) == SelectSeq(EventsOf(w), LAMBDA e : e.step = "unknown")

HandlerPcs == {"except", "finally_lock", "finally_reset", "returned", "crashed"}

(* C11 as claimed: an exception raised in any stage of an accepted run, or  *)
(* by any emit of the try block, is caught by the top-level handler, which  *)
(* emits exactly one error event with step 'unknown'; no later stage runs,  *)
(* the exception does not escape the worker and the guard is released.      *)
C11_TopLevelFault ==
    \A w \in Workers :
        (StageRaised(w) \/ EmitRaisedAt(w, RunPcs \ {"except"})) =>
            /\ pc[w] \in HandlerPcs \ {"crashed"}
            /\ Finished(w) => /\ Len(UnknownErrors(w)) = 1
                              /\ IdleAfter(w)

(* C11 amended: an exception raised by cleanup, a subprocess launch, the    *)
(* upload, or an emit other than the model_data emit is caught by the       *)
(* top-level handler and no later stage runs; the handler emits one         *)
(* 'unknown' error event and the worker returns, unless the handler's own   *)
(* emit raises, in which case no such event is emitted and the exception    *)
(* leaves the thread; the guard is released in both cases.                  *)
C11_TopLevelFaultAmended ==
    \A w \in Workers :
        (StageRaised(w) \/ EmitRaisedAt(w, TopLevelSites)) =>
            /\ pc[w] \in HandlerPcs
            /\ pc[w] # "except" =>
                 IF EmitRaisedAt(w, {"except"})
                 THEN /\ UnknownErrors(w) = <<>>
                      /\ pc[w] # "returned"
                 ELSE /\ Len(UnknownErrors(w)) = 1
                      /\ EventsOf(w)[Len(EventsOf(w))].step = "unknown"
                      /\ pc[w] # "crashed"
            /\ Finished(w) => IdleAfter(w)

(* A run whose cleanup raised has returned after one 'unknown' event, and a *)
(* run whose emit raised lost its worker to the handler's emit raising too. *)
C11_Witness ==
    \E w, v \in Workers :
        /\ StageRaised(w) /\ pc[w] = "returned"
        /\ Len(UnknownErrors(w)) = 1
        /\ EmitRaisedAt(v, TopLevelSites) /\ EmitRaisedAt(v, {"except"})
        /\ pc[v] = "crashed"
        /\ ~training_in_progress

(* ----------------------------------------------- content of error events *)

FixedMessages == {"", "Data conversion failed", "Data conversion failed: ",
                  "Training failed", "Training failed: "}

(* The message is the text, or a fixed message followed by the text.        *)
Carries(message, text) == \E p \in FixedMessages : message = p \o text

(* C16: the error event emitted for a Convert or Train failure (non-zero    *)
(* exit status) carries in its message the captured standard-error text of  *)
(* the failed process.                                                      *)
C16_StderrInMessage ==
    \A w \in Workers :
        (pc[w] \in {"finally_lock", "finally_reset"}
           /\ result[w].returncode \in NonZero) =>
            /\ Len(ErrorsOf(w)) = 1
            /\ ErrorsOf(w)[1].step \in {"data_conversion", "training"}
            /\ Carries(ErrorsOf(w)[1].message, result[w].stderr)

(* ------------------------------------------------- events of each stage *)

Called(w, stage) == stage \in Stages(w)

CallOf(w, stage) == CHOOSE c \in Range(calls[w]) : c.stage = stage

StepEvents(w, step) == SelectSeq(EventsOf(w), LAMBDA e : e.step = step)

ModelEvents(w) == SelectSeq(EventsOf(w), LAMBDA e : e.event = "model_data")

LastEvent(w) == EventsOf(w)[Len(EventsOf(w))]

(* Events of a subprocess stage: its start event, then, once the exit       *)
(* status has been examined, one event reporting completion or failure.     *)
SubprocessEvents(w, stage, checkpc, step, startMsg, doneMsg, failMsg) ==
    LET c == CallOf(w, stage)
        start == StatusEvent(w, "progress", step, startMsg)
    IN IF c.out = "raise" \/ pc[w] = checkpc
       THEN <<start>>
       ELSE <<start, IF c.code # 0
                     THEN StatusEvent(w, "error", step, failMsg)
                     ELSE StatusEvent(w, "progress", step, doneMsg)>>

UploadEvents(w) ==
    LET c == CallOf(w, "upload")
        start == StatusEvent(w, "progress", "model_upload",
                             "Uploading model to server")
    IN IF c.out # "status" \/ pc[w] = "upload_check"
       THEN <<start>>
       ELSE <<start, IF c.code = 200
                     THEN StatusEvent(w, "progress", "model_upload",
                                      "Model successfully uploaded")
                     ELSE StatusEvent(w, "error", "model_upload",
                                      "Failed to upload model: " \o ToString(c.code))>>

(* Place of an event in the order of the stages.                            *)
StageRank(e) ==
    CASE e.status = "started" -> 0
      [] e.step = "data_cleanup" -> 1
      [] e.step = "data_conversion" -> 2
      [] e.step = "training" -> 3
      [] e.step = "model_verification" -> 4
      [] e.step = "model_upload" -> 5
      [] e.event = "model_data" -> 6
      [] e.step = "model_websocket_send" -> 6
      [] OTHER -> 7

(* C17 amended: Convert, Train and Upload each emit a start event before    *)
(* their work begins and, when their call returns, exactly one completion   *)
(* or error event after it; Cleanup is preceded by the pipeline 'started'   *)
(* event and followed by one data_cleanup event; Verify emits nothing       *)
(* unless the artifact is missing (one error event); Broadcast emits no     *)
(* start event and resolves with one model_data event or one                *)
(* model_websocket_send error event; a stage whose call raises is followed  *)
(* by the 'unknown' error event; all events appear in stage order.          *)
C17_StageEventsAmended ==
    \A w \in Workers :
        LET ev == EventsOf(w)
            step(s) == SelectSeq(ev, LAMBDA e : e.step = s)
            model == SelectSeq(ev, LAMBDA e : e.event = "model_data")
            last == ev[Len(ev)]
        IN
            IF pc[w] \in {"unborn", "lock", "check", "set"} THEN ev = <<>> ELSE
            /\ pc[w] = "cleanup" =>
                 ev = <<StatusEvent(w, "started", "",
                                             "Training pipeline started")>>
            /\ step("data_cleanup") =
                 IF Called(w, "cleanup") /\ CallOf(w, "cleanup").out = "ok"
                    /\ pc[w] # "cleanup_done"
                 THEN <<StatusEvent(w, "progress", "data_cleanup", "Old data deleted")>>
                 ELSE <<>>
            /\ pc[w] = "convert" =>
                 last = StatusEvent(w, "progress", "data_conversion",
                                            "Starting data conversion")
            /\ Called(w, "convert") =>
                 step("data_conversion") =
                    SubprocessEvents(w, "convert", "convert_check", "data_conversion",
                                     "Starting data conversion",
                                     "Data conversion completed",
                                     "Data conversion failed")
            /\ pc[w] = "train" =>
                 last = StatusEvent(w, "progress", "training",
                                            "Starting distributed training")
            /\ Called(w, "train") =>
                 step("training") =
                    SubprocessEvents(w, "train", "train_check", "training",
                                     "Starting distributed training",
                                     "Training completed", "Training failed")
            /\ step("model_verification") =
                 IF VerifyMissing(w)
                 THEN <<StatusEvent(w, "error", "model_verification",
                                    "Trained model not found")>>
                 ELSE <<>>
            /\ pc[w] = "upload" =>
                 last = StatusEvent(w, "progress", "model_upload",
                                            "Uploading model to server")
            /\ Called(w, "upload") => step("model_upload") = UploadEvents(w)
            /\ ~Called(w, "broadcast") =>
                 model = <<>> /\ step("model_websocket_send") = <<>>
            /\ Called(w, "broadcast") =>
                 IF CallOf(w, "broadcast").out = "ok"
                 THEN /\ model =
                           <<Event(w, "model_data", "", "", "best_model.pt",
                                   CallOf(w, "broadcast").content)>>
                      /\ step("model_websocket_send") = <<>>
                 ELSE /\ model = <<>>
                      /\ Len(step("model_websocket_send")) =
                           IF pc[w] = "broadcast_except" THEN 0 ELSE 1
            /\ (StageRaised(w) /\ pc[w] # "except") =>
                 Len(UnknownErrors(w)) = 1 /\ last.step = "unknown"
            /\ \A i \in 1..(Len(ev) - 1) : StageRank(ev[i]) <= StageRank(ev[i + 1])

(* A run went through all six stages and completed.                         *)
C17_Witness ==
    \E w \in Workers :
        /\ Finished(w) /\ BroadcastRead(w)
        /\ LastEvent(w).status = "completed"

(* Events that report on a stage.                                           *)
StageEvents(w, stage) ==
    SelectSeq(EventsOf(w), LAMBDA e :
        CASE stage = "cleanup" -> e.status = "started" \/ e.step = "data_cleanup"
          [] stage = "convert" -> e.step = "data_conversion"
          [] stage = "train" -> e.step = "training"
          [] stage = "verify" -> e.step = "model_verification"
          [] stage = "upload" -> e.step = "model_upload"
          [] OTHER -> e.step = "model_websocket_send" \/ e.event = "model_data")

(* C17 as claimed: every stage of an accepted run that has been entered and *)
(* has resolved has emitted a Started event and then exactly one Completed  *)
(* or Error event.                                                          *)
C17_EveryStageBracketed ==
    \A w \in Workers :
        Finished(w) =>
            \A c \in Range(calls[w]) :
                c.out \in {"ok", "exit", "status", "present", "missing"} =>
                    LET ev == StageEvents(w, c.stage)
                    IN /\ Len(ev) = 2
                       /\ ev[1].status \in {"started", "progress"}
                       /\ ev[2].status \in {"progress", "completed", "error"}

(* C18: for every response status in 200..299 the Upload stage reports      *)
(* success (a success progress event and no model_upload error event); for  *)
(* every other status it reports an error event; the run is not aborted in  *)
(* either case.                                                             *)
C18_UploadSuccessIs2xx ==
    \A w \in Workers :
        (Called(w, "upload") /\ CallOf(w, "upload").out = "status"
           /\ pc[w] # "upload_check") =>
            /\ StepEvents(w, "model_upload")[2].status =
                 IF CallOf(w, "upload").code \in 200..299
                 THEN "progress" ELSE "error"
            /\ pc[w] = "broadcast" \/ Called(w, "broadcast")

(* The read or encoding of the artifact failed, or the model_data emit raised. *)
BroadcastFault(w) ==
    \/ Called(w, "broadcast") /\ CallOf(w, "broadcast").out = "raise"
    \/ EmitRaisedAt(w, {"broadcast"})

WebsocketErrors(w) == StepEvents(w, "model_websocket_send")

(* C19 as claimed: a fault in the Broadcast stage is caught inside the      *)
(* stage: the run emits an error event with step model_websocket_send, the  *)
(* top-level handler does not fire for it, the outcome reported for Upload  *)
(* is unaffected and the guard is released. (A later fault of the           *)
(* 'completed' emit is not a fault of the Broadcast stage.)                 *)
C19_BroadcastFaultContained ==
    \A w \in Workers :
        (BroadcastFault(w) /\ pc[w] # "broadcast_except"
           /\ ~EmitRaisedAt(w, {"completed"})) =>
            /\ Len(WebsocketErrors(w)) = 1
            /\ UnknownErrors(w) = <<>>
            /\ pc[w] \notin {"except", "crashed"}
            /\ StepEvents(w, "model_upload") = UploadEvents(w)
            /\ Finished(w) => IdleAfter(w)

(* C19 amended: a fault in the Broadcast stage is caught by the inner       *)
(* handler, which emits one error event with step model_websocket_send; the *)
(* top-level handler then does not fire for it and the run goes on to the   *)
(* 'completed' emit, unless the inner handler's own emit raises: then no    *)
(* such event is emitted and the exception reaches the top-level handler.   *)
(* The Upload events are unaffected and the guard is released in both       *)
(* cases.                                                                   *)
C19_BroadcastFaultAmended ==
    \A w \in Workers :
        (BroadcastFault(w) /\ pc[w] # "broadcast_except") =>
            /\ IF EmitRaisedAt(w, {"broadcast_except"})
               THEN /\ WebsocketErrors(w) = <<>>
                    /\ pc[w] \in HandlerPcs
               ELSE /\ Len(WebsocketErrors(w)) = 1
                    /\ WebsocketErrors(w)[1].message \in
                         {"Failed to send model to clients: OSError",
                          "Failed to send model to clients: EmitError"}
                    /\ ~EmitRaisedAt(w, {"completed"}) =>
                         /\ UnknownErrors(w) = <<>>
                         /\ pc[w] \in {"completed", "finally_lock",
                                       "finally_reset", "returned"}
            /\ ModelEvents(w) = <<>>
            /\ StepEvents(w, "model_upload") = UploadEvents(w)
            /\ Finished(w) => IdleAfter(w)

(* A run whose model_data emit raised reported it, completed and returned;  *)
(* the flag is False.                                                       *)
C19_Witness ==
    \E w \in Workers :
        /\ EmitRaisedAt(w, {"broadcast"})
        /\ pc[w] = "returned"
        /\ Len(WebsocketErrors(w)) = 1
        /\ LastEvent(w).status = "completed"
        /\ ~training_in_progress

(* ------------------------------------------------- streamer vocabulary *)

(* the item a message on the wire carries *)
Loads(m) == m[2]

(* the items observer c has been sent, in the order of arrival *)
ItemsOf(c) == [k \in 1..Len(received[c]) |-> Loads(received[c][k])]

Delivered(c, i) == \E k \in 1..Len(received[c]) : Loads(received[c][k]) = i

(* items are numbered by their add_training_data call: i was put iff i <= enqueued *)
Enqueued(i) == i <= enqueued

Queued(i) == \E k \in 1..Len(data_queue) : data_queue[k] = i

(* C12: what an observer receives is a subsequence of the enqueue order:     *)
(* every message carries an item that was enqueued, and each one carries a   *)
(* later item than the one before it, so nothing arrives twice or out of     *)
(* order, whatever the interleaving of puts, connections and dispatch.       *)
C12_PerObserverOrder ==
    \A c \in Observers :
        /\ \A k \in 1..Len(received[c]) :
              /\ received[c][k] = Dumps(ItemsOf(c)[k])
              /\ Enqueued(ItemsOf(c)[k])
        /\ \A j, k \in 1..Len(received[c]) :
              j < k => ItemsOf(c)[j] < ItemsOf(c)[k]

(* one observer has two items, another joined later and has only the last *)
C12_Witness ==
    \E c, d \in Observers :
        /\ Len(received[c]) >= 2
        /\ Len(received[d]) = 1
        /\ ItemsOf(d)[1] = ItemsOf(c)[Len(received[c])]

(* C13 as stated: no observer receives an item that was enqueued before the  *)
(* observer registered, even when the item was still in the queue then.      *)
C13_NoItemFromBeforeJoin ==
    \A c \in Observers : \A k \in 1..Len(received[c]) :
        ItemsOf(c)[k] > joinEnq[c]

(* C13, amended: no observer receives an item that the dispatch loop had     *)
(* already dequeued when the observer registered; an item put before the     *)
(* registration and still queued at that moment is sent to the observer      *)
(* like any later one.                                                       *)
C13_NoItemDequeuedBeforeJoin ==
    \A c \in Observers : \A k \in 1..Len(received[c]) :
        ItemsOf(c)[k] > joinDeq[c]

(* an observer holds an item that was put before it registered, while an     *)
(* item dequeued before it registered never reached it                       *)
C13_Witness ==
    \E c \in Observers :
        /\ joinDeq[c] >= 1
        /\ \E k \in 1..Len(received[c]) : ItemsOf(c)[k] <= joinEnq[c]

(* C14 as stated: an observer that registered before an item was put and     *)
(* stays connected is eventually sent that item, when the event loop runs    *)
(* every ready coroutine, whatever the other observers do.                   *)
C14_CompleteDelivery ==
    \A c \in Observers : \A i \in Items :
        (Enqueued(i) /\ conn[c] = "open" /\ joinEnq[c] < i)
            ~> (Delivered(c, i) \/ conn[c] # "open")

(* C15 as stated: after any sequence of puts, connections, disconnections    *)
(* and sends, a send to a closed connection included, broadcast_data is      *)
(* still inside its while loop: polling, awaiting its gather or sleeping.    *)
C15_LoopRunsForever == loop \in {"poll", "sending", "sleep"}

(* the items the dispatch loop dequeued while self.clients was empty *)
Discarded == {dispatched[k].item : k \in {j \in 1..Len(dispatched) : dispatched[j].to = {}}}

(* C20: an item dequeued while no observer is registered has left the queue, *)
(* has been sent to nobody, and no observer that registers later gets it.    *)
C20_DrainAndDiscard ==
    \A i \in Discarded :
        /\ ~Queued(i)
        /\ \A c \in Observers : ~Delivered(c, i)

(* an item was discarded, and an observer that registered afterwards has     *)
(* been sent a later item                                                    *)
C20_Witness ==
    \E i \in Discarded : \E c \in Observers :
        /\ joinDeq[c] >= i
        /\ Len(received[c]) >= 1

(* the items the dispatch loop has taken from the queue so far *)
Dequeued == {dispatched[k].item : k \in 1..Len(dispatched)}

(* C21 as stated: when the loop goes to its sleep, every item that was       *)
(* pending in the queue at its last poll has been taken                      *)
(* and dispatched: a backlog of k items costs one poll, not k.               *)
C21_WholeBacklogPerPoll ==
    loop = "sleep" =>
        \A j \in 1..Len(polled.left) : polled.left[j] \in Dequeued

(* the record of the item dequeued last *)
LastDispatch == dispatched[Len(dispatched)]

DispatchOf(i) == CHOOSE r \in Range(dispatched) : r.item = i

(* every message an observer holds was dequeued while it was registered,     *)
(* the sends in flight go to observers of the last snapshot only, and once   *)
(* the gather has returned every observer of the snapshot holds the item     *)
SnapshotRecipients ==
    /\ \A c \in Observers : \A k \in 1..Len(received[c]) :
          /\ ItemsOf(c)[k] \in Dequeued
          /\ c \in DispatchOf(ItemsOf(c)[k]).to
    /\ loop = "sending" => pending \subseteq LastDispatch.to
    /\ (loop \in {"poll", "sleep"} /\ dispatched # <<>>) =>
          \A c \in LastDispatch.to : Delivered(c, LastDispatch.item)

(* the loop has ended although every observer of the last snapshot was       *)
(* connected when the item was dequeued: one of them went away during the    *)
(* fan-out                                                                   *)
FaultedDuringFanOut ==
    /\ loop = "dead"
    /\ polled.open = LastDispatch.to

(* C22 as stated: an item is sent to exactly the observers registered when   *)
(* it is dispatched, an observer that registers during the fan-out does not  *)
(* get it, and a connection or disconnection during the fan-out neither      *)
(* changes the recipients nor faults the dispatch loop.                      *)
C22_SnapshotFanOut == SnapshotRecipients /\ ~FaultedDuringFanOut

(* C23 as stated: while the send to one observer never completes, an item    *)
(* put after another observer registered still reaches that observer as      *)
(* long as it stays connected (a loop that a raising send has ended is       *)
(* left out of the statement).                                               *)
C23_StalledObserverStarvesNobody ==
    \A d \in Responsive : \A i \in Items :
        (Enqueued(i) /\ conn[d] = "open" /\ joinEnq[d] < i)
            ~> (Delivered(d, i) \/ conn[d] # "open" \/ loop = "dead")

(* the connections register has added and whose closure it has not processed *)
Registered == {c \in Observers : conn[c] \in {"open", "closed"}}

(* one step adds a new connection to the clients *)
Adds(c) ==
    /\ conn[c] = "new" /\ conn'[c] = "open"
    /\ c \notin clients /\ clients' = clients \cup {c}

(* one step removes a closed connection from the clients *)
Removes(c) ==
    /\ conn[c] = "closed" /\ conn'[c] = "gone"
    /\ c \in clients /\ clients' = clients \ {c}

(* a step of broadcast_data or of one of its sends *)
LoopStep ==
    \/ loop' # loop
    \/ pending' # pending
    \/ received' # received

(* C24: the clients are exactly the connections that register has added and  *)
(* whose closure it has not yet processed; the set changes only by one       *)
(* addition of a new connection or one removal of a closed one, the removal  *)
(* never raises, no step of the dispatch loop changes the set, and a         *)
(* removed connection stays removed.                                         *)
C24_RegistryMembership ==
    /\ [](clients = Registered /\ \A c \in Observers : conn[c] # "keyerror")
    /\ [][/\ clients' # clients => \E c \in Observers : Adds(c) \/ Removes(c)
          /\ LoopStep => clients' = clients
          /\ \A c \in Observers :
                conn[c] = "gone" => conn'[c] = "gone" /\ c \notin clients']_vars

(* one connection has been removed, another has closed and is still a member *)
(* while the loop has dispatched to it                                       *)
C24_Witness ==
    \E c, d \in Observers :
        /\ conn[c] = "gone" /\ c \notin clients
        /\ conn[d] = "closed" /\ d \in clients
        /\ dispatched # <<>> /\ d \in LastDispatch.to

(* worker w takes a step *)
Steps(w) == pc'[w] # pc[w]

(* C25: no step of a rejected worker changes training_in_progress, a         *)
(* rejected worker never enters the try block or its finally clause, and     *)
(* the flag goes from True to False only in the finally clause of the        *)
(* accepted worker that set it and has not reset it yet.                     *)
C25_RejectedLeavesGuard ==
    [][/\ \A w \in Workers :
             (guard[w] = "skipped" /\ Steps(w)) =>
                 /\ training_in_progress' = training_in_progress
                 /\ pc'[w] \in {"returned", "crashed"}
       /\ (training_in_progress /\ ~training_in_progress') =>
             \E w \in Workers :
                 /\ guard[w] = "accepted" /\ InRegion(w)
                 /\ pc[w] = "finally_reset" /\ Steps(w)]_vars

(* a rejected worker has returned while the run that made it skip is still   *)
(* in progress with the flag set                                             *)
C25_Witness ==
    \E w, v \in Workers :
        /\ guard[w] = "skipped" /\ pc[w] = "returned"
        /\ guard[v] = "accepted" /\ InRegion(v) /\ pc[v] # "finally_reset"
        /\ training_in_progress

(* the events of accepted runs, in emission order *)
RunEvents == SelectSeq(emitted, LAMBDA e : e.status # "skipped")

(* C26: the events of an accepted run are contiguous among the events of     *)
(* accepted runs: where the emitting worker changes, the next event is the   *)
(* 'started' event of the next run and the previous run emits nothing        *)
(* afterwards; only 'skipped' events of rejected workers fall in between.    *)
C26_RunsDoNotInterleave ==
    /\ \A i \in 1..Len(emitted) :
          emitted[i].status = "skipped" <=> guard[emitted[i].worker] = "skipped"
    /\ LET ev == RunEvents
       IN \A i \in 1..(Len(ev) - 1) :
             ev[i].worker # ev[i + 1].worker =>
                 /\ ev[i + 1].status = "started"
                 /\ \A k \in (i + 1)..Len(ev) : ev[k].worker # ev[i].worker

(* two accepted runs have emitted events, one after the other *)
C26_Witness ==
    \E i \in 1..(Len(RunEvents) - 1) :
        /\ RunEvents[i].worker # RunEvents[i + 1].worker
        /\ Len(EventsOf(RunEvents[i].worker)) >= 2

CompletedEvents(w) == SelectSeq(EventsOf(w), LAMBDA e : e.status = "completed")

PassedVerify(w) ==
    \E c \in Range(calls[w]) : c.stage = "verify" /\ c.out = "present"

UploadReturned(w) ==
    \E c \in Range(calls[w]) : c.stage = "upload" /\ c.out = "status"

(* the try block of an accepted run is over *)
Resolved(w) ==
    /\ guard[w] = "accepted"
    /\ pc[w] \in {"finally_lock", "finally_reset", "returned", "crashed"}

(* 'completed' is emitted at most once, as the last event of its run, and    *)
(* never in a run that emitted the top-level handler's 'unknown' error       *)
CompletedOnceAndLast(w) ==
    /\ Len(CompletedEvents(w)) <= 1
    /\ CompletedEvents(w) # <<>> =>
          /\ LastEvent(w).status = "completed"
          /\ UnknownErrors(w) = <<>>
          /\ ~StageRaised(w)

(* the emits after the upload has returned whose exception reaches the       *)
(* top-level handler: the upload result, the inner handler's error event     *)
(* and the 'completed' event itself                                          *)
LateEmitSites == {"upload_check", "broadcast_except", "completed"}

(* C27 as stated: 'completed' is emitted at most once per accepted run, as   *)
(* its last event, and exactly when the run passed Verify and the Upload     *)
(* stage raised no exception.                                                *)
C27_CompletedExactlyWhen ==
    \A w \in Workers :
        /\ CompletedOnceAndLast(w)
        /\ Resolved(w) =>
              (CompletedEvents(w) # <<>> <=> (PassedVerify(w) /\ UploadReturned(w)))

(* C27, amended: as stated, with one more condition for the emission: none   *)
(* of the emits that follow the upload outside the inner handler's           *)
(* protection has raised.                                                    *)
C27_CompletedAmended ==
    \A w \in Workers :
        /\ CompletedOnceAndLast(w)
        /\ Resolved(w) =>
              (CompletedEvents(w) # <<>> <=>
                  /\ PassedVerify(w)
                  /\ UploadReturned(w)
                  /\ ~EmitRaisedAt(w, LateEmitSites))

(* a run reported a refused upload and a Broadcast fault and still emitted   *)
(* 'completed' as its last event                                             *)
C27_Witness ==
    \E w \in Workers :
        /\ Resolved(w)
        /\ UploadRefused(w)
        /\ WebsocketErrors(w) # <<>>
        /\ LastEvent(w).status = "completed"

(* C28 as stated: the artifact a run uploads or broadcasts was written by    *)
(* that run's own Train stage, never left at the path by an earlier run.     *)
C28_ArtifactFresh ==
    \A w \in Workers : \A c \in Range(calls[w]) :
        (c.stage \in {"upload", "broadcast"} /\ c.out \in {"status", "ok"}) =>
            c.content = w

====
